---- MODULE Spec2Model ----
(***************************************************************************)
(* The BadgerDB buffer manager (BufMgr) of src/BufMgr-2021/src/buffer.cpp  *)
(* as a state machine.  One action per public method; every action runs    *)
(* the whole method, including the clock scan of allocBuf.  A method is an *)
(* operator from the state it starts in to its Outcome: the state it       *)
(* leaves, how it ended, and the calls it made on the File.                *)
(***************************************************************************)
EXTENDS Integers, Sequences, FiniteSets, TLC

\* ---------------------------------------------------------------- bounds
NumBufs == 2        \* bufs, the constructor's argument
MaxPageNo == 2      \* file "A" holds pages 1..MaxPageNo at most
MaxPin == 2         \* a page is pinned at most MaxPin times at once

\* ---------------------------------------------------- values of the model
Files == {"A", "B"}
NoFile == "none"                 \* a default-constructed File
INVALID_NUMBER == 0              \* Page::INVALID_NUMBER
NoFrame == 0 - 1                 \* "no frame": lookup miss, nothing allocated

Frames == 0 .. (NumBufs - 1)
PageNos == 1 .. MaxPageNo
\* The page numbers a file may assign: "B" is a one-page file.
PagesOf(f) == IF f = "A" THEN PageNos ELSE {1}
Keys == {k \in Files \X PageNos : k[2] \in PagesOf(k[1])}

\* A Page is known by the page number it carries (Page::page_number());
\* a default-constructed Page carries none.
EmptyPage == [pno |-> INVALID_NUMBER]

\* ---------------------------------------------------------------- state
VARIABLES
  bufDescTable,   \* FrameId -> BufDesc
  bufPool,        \* FrameId -> Page held in the frame
  hashTable,      \* (file, pageNo) -> FrameId, or NoFrame
  clockHand,      \* the clock hand
  disk,           \* (file, pageNo) -> the file has this page
  markedDirty,    \* FrameId -> the page was unpinned with dirty = true
                  \*   since it was loaded or last written (history)
  hung            \* a call is in allocBuf's loop and will never leave it

vars == <<bufDescTable, bufPool, hashTable, clockHand, disk, markedDirty, hung>>

\* The fields of BufMgr and the files, as one value the methods transform.
Cur == [desc |-> bufDescTable, pool |-> bufPool, hash |-> hashTable,
        hand |-> clockHand, disk |-> disk]

\* ------------------------------------------------------------- BufDesc
\* BufDesc::clear()
Clear(d) == [file |-> NoFile, pageNo |-> INVALID_NUMBER, valid |-> FALSE,
             refbit |-> FALSE, dirty |-> FALSE, pinCnt |-> 0]

\* BufDesc::Set(file, pageNum)
Set(d, f, p) == [file |-> f, pageNo |-> p, valid |-> TRUE,
                 refbit |-> TRUE, dirty |-> FALSE, pinCnt |-> 1]

\* ------------------------------------------------------------ BufHashTbl
\* lookup: the frame, or NoFrame where the code gets HashNotFoundException
Lookup(ht, f, p) == ht[<<f, p>>]
Insert(ht, f, p, i) == [ht EXCEPT ![<<f, p>>] = i]
Remove(ht, f, p) == [ht EXCEPT ![<<f, p>>] = NoFrame]

\* ------------------------------------------------------------------ File
PageExists(dk, f, p) == <<f, p>> \in Keys /\ dk[<<f, p>>]
\* File::readPage(pageNo): the page as stored
FileRead(dk, f, p) == [pno |-> p]
\* File::writePage(page): overwrites the page whose number the content carries
FileWrite(dk, f, pg) == [dk EXCEPT ![<<f, pg.pno>>] = TRUE]
\* File::allocatePage(): page p comes to exist, with the initial payload
FileAllocate(dk, f, p) == [dk EXCEPT ![<<f, p>>] = TRUE]
\* File::deletePage(pageNo)
FileDelete(dk, f, p) == [dk EXCEPT ![<<f, p>>] = FALSE]

IoRead(f, p) == [call |-> "readPage", file |-> f, pno |-> p]
IoWrite(f, pg) == [call |-> "writePage", file |-> f, pno |-> pg.pno]
IoAllocate(f, p) == [call |-> "allocatePage", file |-> f, pno |-> p]
IoDelete(f, p) == [call |-> "deletePage", file |-> f, pno |-> p]

\* ---------------------------------------------------------------- BufMgr
\* BufMgr::advanceClock
AdvanceClock(h) == IF h + 1 >= NumBufs THEN 0 ELSE h + 1

\* How a method ends: st is the state it leaves, res is "ok" or the
\* exception, frame the frame it allocated or hit, io its File calls.
Outcome(st, res, frame, io) == [st |-> st, res |-> res, frame |-> frame, io |-> io]

\* The victim branch of allocBuf (lines 111-125): write a dirty page, remove
\* the hash table entry, return the frame.
Evict(st, h) ==
  LET d == st.desc[h]
      pg == st.pool[h]
  IN IF d.dirty
     THEN IF ~PageExists(st.disk, d.file, pg.pno)
          THEN Outcome(st, "FileError", NoFrame, <<IoWrite(d.file, pg)>>)
          ELSE LET s1 == [st EXCEPT !.disk = FileWrite(st.disk, d.file, pg),
                                    !.desc[h].dirty = FALSE]
                   io == <<IoWrite(d.file, pg)>>
               IN IF Lookup(s1.hash, d.file, d.pageNo) = NoFrame
                  THEN Outcome(s1, "HashNotFound", NoFrame, io)
                  ELSE Outcome([s1 EXCEPT !.hash = Remove(s1.hash, d.file, d.pageNo)],
                               "ok", h, io)
     ELSE IF Lookup(st.hash, d.file, d.pageNo) = NoFrame
          THEN Outcome(st, "HashNotFound", NoFrame, <<>>)
          ELSE Outcome([st EXCEPT !.hash = Remove(st.hash, d.file, d.pageNo)],
                       "ok", h, <<>>)

\* One inspection of allocBuf's loop at the frame under the hand: TRUE when
\* the frame is skipped because it is pinned (line 106).
PinnedSkip(d) == d.pinCnt > 0

\* The loop of allocBuf (lines 74-126).  st.hand is the clock hand, cand is
\* candidateSeen, seen the loop states met so far in this call: the body is
\* a function of (clockHand, candidateSeen, bufDescTable), so meeting one of
\* them again means the loop never ends ("hang").
RECURSIVE Scan(_, _, _, _)
Scan(st, startingFrame, cand, seen) ==
  LET loopState == <<st.hand, cand, st.desc>> IN
  IF loopState \in seen
  THEN Outcome(st, "hang", NoFrame, <<>>)
  ELSE
    LET h == AdvanceClock(st.hand)
        s1 == [st EXCEPT !.hand = h]
        d == st.desc[h]
    IN IF h = startingFrame /\ ~cand
       THEN Outcome(s1, "BufferExceeded", NoFrame, <<>>)
       ELSE IF ~d.valid
       THEN Outcome(s1, "ok", h, <<>>)
       ELSE IF d.refbit
       THEN Scan([s1 EXCEPT !.desc[h].refbit = FALSE], startingFrame, TRUE,
                 seen \cup {loopState})
       ELSE IF PinnedSkip(d)
       THEN Scan(s1, startingFrame, cand, seen \cup {loopState})
       ELSE Evict(s1, h)

\* An allocBuf that takes every refbit for clear: no second chance.
AllocBufIgnoringRefbits(st) ==
  Scan([st EXCEPT !.desc = [i \in Frames |-> [st.desc[i] EXCEPT !.refbit = FALSE]]],
       st.hand, FALSE, {})

\* BufMgr::allocBuf
AllocBuf(st) == Scan(st, st.hand, FALSE, {})

\* A hit that forgets bufDesc->refbit = true.
PinHitNoRef(d) == [d EXCEPT !.pinCnt = @ + 1]

\* The hit branch of readPage (lines 155-156)
PinHit(d) == [d EXCEPT !.refbit = TRUE, !.pinCnt = @ + 1]

\* A miss that forgets bufPool[frameNo] = file.readPage(pageNo).
LoadPageNoStore(st, i, f, p) ==
  [st EXCEPT !.hash = Insert(st.hash, f, p, i),
             !.desc[i] = Set(st.desc[i], f, p)]

\* The miss branch of readPage after allocBuf returned frame i (lines
\* 167-175): store the page read, insert the entry, Set the descriptor.
LoadPage(st, i, f, p) ==
  [st EXCEPT !.pool[i] = FileRead(st.disk, f, p),
             !.hash = Insert(st.hash, f, p, i),
             !.desc[i] = Set(st.desc[i], f, p)]

\* BufMgr::readPage
ReadPageOp(st, f, p) ==
  LET i == Lookup(st.hash, f, p) IN
  IF i # NoFrame
  THEN Outcome([st EXCEPT !.desc[i] = PinHit(st.desc[i])], "ok", i, <<>>)
  ELSE LET a == AllocBuf(st)
           io == Append(a.io, IoRead(f, p))
       IN IF a.res # "ok"
          THEN a
          ELSE IF ~PageExists(a.st.disk, f, p)
          THEN Outcome(a.st, "FileError", a.frame, io)
          ELSE Outcome(LoadPage(a.st, a.frame, f, p), "ok", a.frame, io)

\* The update of unPinPage (lines 207-208)
UnPin(d, dirty) == [d EXCEPT !.pinCnt = @ - 1, !.dirty = dirty]

\* An unPinPage without the test of lines 203-205.
UnPinPageOpUnchecked(st, f, p, dirty) ==
  LET i == Lookup(st.hash, f, p) IN
  IF i = NoFrame
  THEN Outcome(st, "ok", NoFrame, <<>>)
  ELSE Outcome([st EXCEPT !.desc[i] = UnPin(st.desc[i], dirty)], "ok", i, <<>>)

\* An unPinPage without the handler of lines 209-211.
UnPinPageOpNoCatch(st, f, p, dirty) ==
  LET i == Lookup(st.hash, f, p) IN
  IF i = NoFrame
  THEN Outcome(st, "HashNotFound", NoFrame, <<>>)
  ELSE IF st.desc[i].pinCnt = 0
  THEN Outcome(st, "PageNotPinned", i, <<>>)
  ELSE Outcome([st EXCEPT !.desc[i] = UnPin(st.desc[i], dirty)], "ok", i, <<>>)

\* BufMgr::unPinPage
UnPinPageOp(st, f, p, dirty) ==
  LET i == Lookup(st.hash, f, p) IN
  IF i = NoFrame
  THEN Outcome(st, "ok", NoFrame, <<>>)
  ELSE IF st.desc[i].pinCnt = 0
  THEN Outcome(st, "PageNotPinned", i, <<>>)
  ELSE Outcome([st EXCEPT !.desc[i] = UnPin(st.desc[i], dirty)], "ok", i, <<>>)

\* allocPage after allocBuf returned frame i and File::allocatePage page
\* pn (lines 241-250): insert the entry, Set the descriptor.  bufPool[i]
\* is not assigned.
InstallNewPage(st, i, f, pn) ==
  [st EXCEPT !.hash = Insert(st.hash, f, pn, i),
             !.desc[i] = Set(st.desc[i], f, pn)]

\* An allocPage that calls file.allocatePage() before allocBuf.
AllocPageOpFileFirst(st, f, pn) ==
  LET s0 == [st EXCEPT !.disk = FileAllocate(st.disk, f, pn)]
      a == AllocBuf(s0)
      io == <<IoAllocate(f, pn)>> \o a.io
  IN IF a.res # "ok"
     THEN Outcome(a.st, a.res, a.frame, io)
     ELSE IF Lookup(a.st.hash, f, pn) # NoFrame
     THEN Outcome(a.st, "HashAlreadyPresent", a.frame, io)
     ELSE Outcome(InstallNewPage(a.st, a.frame, f, pn), "ok", a.frame, io)

\* BufMgr::allocPage; pn is the number File::allocatePage assigns.
AllocPageOp(st, f, pn) ==
  LET a == AllocBuf(st)
      io == Append(a.io, IoAllocate(f, pn))
  IN IF a.res # "ok"
     THEN a
     ELSE LET s1 == [a.st EXCEPT !.disk = FileAllocate(a.st.disk, f, pn)] IN
          IF Lookup(s1.hash, f, pn) # NoFrame
          THEN Outcome(s1, "HashAlreadyPresent", a.frame, io)
          ELSE Outcome(InstallNewPage(s1, a.frame, f, pn), "ok", a.frame, io)

\* The loop of BufMgr::flushFile from frame i on; io are the File calls made
\* for the frames before i.
RECURSIVE FlushFrom(_, _, _, _)
FlushFrom(st, f, i, io) ==
  IF i >= NumBufs
  THEN Outcome(st, "ok", NoFrame, io)
  ELSE
    LET d == st.desc[i]
        pg == st.pool[i]
    IN IF d.file # f
       THEN FlushFrom(st, f, i + 1, io)
       ELSE IF d.pinCnt # 0
       THEN Outcome(st, "PagePinned", i, io)
       ELSE IF ~d.valid
       THEN Outcome(st, "BadBuffer", i, io)
       ELSE IF ~d.dirty
       THEN FlushFrom(st, f, i + 1, io)
       ELSE IF ~PageExists(st.disk, f, pg.pno)
       THEN Outcome(st, "FileError", i, Append(io, IoWrite(f, pg)))
       ELSE LET s1 == [st EXCEPT !.disk = FileWrite(st.disk, f, pg),
                                 !.desc[i].dirty = FALSE]
                io1 == Append(io, IoWrite(f, pg))
            IN IF Lookup(s1.hash, f, d.pageNo) = NoFrame
               THEN Outcome(s1, "HashNotFound", i, io1)
               ELSE FlushFrom([s1 EXCEPT !.hash = Remove(s1.hash, f, d.pageNo),
                                         !.desc[i] = Clear(s1.desc[i])],
                              f, i + 1, io1)

\* BufMgr::flushFile
FlushFileOp(st, f) == FlushFrom(st, f, 0, <<>>)

\* A disposePage that forgets bufDescTable[frameNo].clear().
DisposePageOpNoClear(st, f, p) ==
  LET i == Lookup(st.hash, f, p)
      s1 == IF i = NoFrame THEN st ELSE [st EXCEPT !.hash = Remove(st.hash, f, p)]
      io == <<IoDelete(f, p)>>
  IN IF ~PageExists(s1.disk, f, p)
     THEN Outcome(s1, "FileError", i, io)
     ELSE Outcome([s1 EXCEPT !.disk = FileDelete(s1.disk, f, p)], "ok", i, io)

\* BufMgr::disposePage
DisposePageOp(st, f, p) ==
  LET i == Lookup(st.hash, f, p)
      s1 == IF i = NoFrame
            THEN st
            ELSE [st EXCEPT !.desc[i] = Clear(st.desc[i]),
                            !.hash = Remove(st.hash, f, p)]
      io == <<IoDelete(f, p)>>
  IN IF ~PageExists(s1.disk, f, p)
     THEN Outcome(s1, "FileError", i, io)
     ELSE Outcome([s1 EXCEPT !.disk = FileDelete(s1.disk, f, p)], "ok", i, io)

\* --------------------------------------------------- the state machine
\* The call wrote the page of frame i to its file: these methods clear a
\* dirty bit only after File::writePage returned.
WrittenBack(op, r, i) ==
  /\ op \in {"readPage", "allocPage", "flushFile"}
  /\ bufDescTable[i].dirty
  /\ ~r.st.desc[i].dirty

\* The call gave frame i to a page (Set) or emptied it (clear).
Reloaded(op, r, i) ==
  \/ op \in {"readPage", "allocPage"} /\ r.res = "ok" /\ r.frame = i
       /\ r.io # <<>>
  \/ bufDescTable[i].valid /\ ~r.st.desc[i].valid

\* The call `op' with markDirty argument `dirty' ended as r: the fields take
\* the values it left.
Commit(op, dirty, r) ==
  /\ bufDescTable' = r.st.desc
  /\ bufPool' = r.st.pool
  /\ hashTable' = r.st.hash
  /\ clockHand' = r.st.hand
  /\ disk' = r.st.disk
  /\ markedDirty' = [i \in Frames |->
        IF op = "unPinPage" /\ r.res = "ok" /\ r.frame = i
        THEN markedDirty[i] \/ dirty
        ELSE IF WrittenBack(op, r, i) \/ Reloaded(op, r, i)
        THEN FALSE
        ELSE markedDirty[i]]
  /\ hung' = (r.res = "hang")

\* A call whose allocBuf never returns leaves the program in that loop.
Running == ~hung

Init ==
  /\ bufDescTable = [i \in Frames |-> Clear(i)]
  /\ bufPool = [i \in Frames |-> EmptyPage]
  /\ hashTable = [k \in Keys |-> NoFrame]
  /\ clockHand = NumBufs - 1
  /\ disk = [k \in Keys |-> FALSE]
  /\ markedDirty = [i \in Frames |-> FALSE]
  /\ hung = FALSE

readPage(f, p) ==
  /\ Running
  /\ Lookup(hashTable, f, p) # NoFrame
       => bufDescTable[Lookup(hashTable, f, p)].pinCnt < MaxPin
  /\ Commit("readPage", FALSE, ReadPageOp(Cur, f, p))

unPinPage(f, p, dirty) ==
  /\ Running
  /\ Commit("unPinPage", dirty, UnPinPageOp(Cur, f, p, dirty))

\* File::allocatePage is reached only when allocBuf returned a frame; the
\* file then assigns a page number it does not hold yet.
allocPage(f, pn) ==
  /\ Running
  /\ AllocBuf(Cur).res = "ok" => ~PageExists(disk, f, pn)
  /\ Commit("allocPage", FALSE, AllocPageOp(Cur, f, pn))

flushFile(f) ==
  /\ Running
  /\ Commit("flushFile", FALSE, FlushFileOp(Cur, f))

disposePage(f, p) ==
  /\ Running
  /\ Commit("disposePage", FALSE, DisposePageOp(Cur, f, p))

Next ==
  \/ \E k \in Keys : readPage(k[1], k[2])
  \/ \E k \in Keys, dirty \in BOOLEAN : unPinPage(k[1], k[2], dirty)
  \/ \E k \in Keys : allocPage(k[1], k[2])
  \/ \E f \in Files : flushFile(f)
  \/ \E k \in Keys : disposePage(k[1], k[2])

Spec == Init /\ [][Next]_vars

\* ------------------------------------------------------------- claims
HoldsPage(i, f, p) ==
  /\ bufDescTable[i].valid
  /\ bufDescTable[i].file = f
  /\ bufDescTable[i].pageNo = p

ValidFrames == {i \in Frames : bufDescTable[i].valid}
TableEntries == {k \in Keys : hashTable[k] # NoFrame}
Resident(k) == Lookup(hashTable, k[1], k[2]) # NoFrame
IoCalls(io, call) == {n \in 1 .. Len(io) : io[n].call = call}
AllPinned == \A i \in Frames : bufDescTable[i].valid /\ bufDescTable[i].pinCnt > 0

\* C1: after every public call that returned or threw, (file, pageNo) -> i
\* is in the hash table iff frame i is valid and holds (file, pageNo), and
\* there are as many entries as valid frames.
C1_TableAgreesWithDescriptors ==
  Running =>
    /\ \A k \in Keys, i \in Frames : (hashTable[k] = i) <=> HoldsPage(i, k[1], k[2])
    /\ Cardinality(TableEntries) = Cardinality(ValidFrames)

\* C2: no two distinct valid frames hold the same (file, pageNo).
C2_AtMostOneCopy ==
  \A i, j \in ValidFrames :
    (bufDescTable[i].file = bufDescTable[j].file
       /\ bufDescTable[i].pageNo = bufDescTable[j].pageNo) => i = j

\* What C3 says of a call through allocBuf that ended as r: every frame
\* that was pinned is still valid, holds the same page, has its hash table
\* entry and its content, and is not the frame allocBuf returned.
PinnedKept(r) ==
  \A i \in Frames : bufDescTable[i].pinCnt > 0 =>
    /\ r.st.desc[i].valid
    /\ r.st.desc[i].file = bufDescTable[i].file
    /\ r.st.desc[i].pageNo = bufDescTable[i].pageNo
    /\ Lookup(r.st.hash, bufDescTable[i].file, bufDescTable[i].pageNo) = i
    /\ r.st.pool[i] = bufPool[i]
    /\ r.frame # i

\* C3: a pinned frame is never evicted by a fetch of a page that is not
\* resident or by a newPage.
C3_PinnedNeverEvicted ==
  [][\A k \in Keys :
       /\ (~Resident(k) /\ readPage(k[1], k[2]))
            => PinnedKept(ReadPageOp(Cur, k[1], k[2]))
       /\ allocPage(k[1], k[2])
            => PinnedKept(AllocPageOp(Cur, k[1], k[2]))]_vars

\* C4: an unpin leaves a dirty page dirty, whatever markDirty is: only a
\* write-back or a disposal clears the dirty bit.
C4_DirtyIsSticky ==
  [][\A k \in Keys, dirty \in BOOLEAN : unPinPage(k[1], k[2], dirty) =>
       \A i \in Frames : bufDescTable[i].dirty => bufDescTable'[i].dirty]_vars

\* The page of frame i, unpinned with markDirty = true since it was loaded
\* or last written, leaves the pool in a call that ended as r without a
\* writePage of its content.
LostBy(r, i) ==
  /\ markedDirty[i]
  /\ Lookup(hashTable, bufDescTable[i].file, bufDescTable[i].pageNo) = i
  /\ Lookup(r.st.hash, bufDescTable[i].file, bufDescTable[i].pageNo) # i
  /\ \A n \in 1 .. Len(r.io) : r.io[n] # IoWrite(bufDescTable[i].file, bufPool[i])

\* C5: no page unpinned with markDirty = true leaves the pool by eviction
\* (fetch, newPage) or by flushFile unless the call writes its content.
C5_NoModificationLost ==
  [][/\ \A k \in Keys :
          /\ readPage(k[1], k[2])
               => \A i \in Frames : ~LostBy(ReadPageOp(Cur, k[1], k[2]), i)
          /\ allocPage(k[1], k[2])
               => \A i \in Frames : ~LostBy(AllocPageOp(Cur, k[1], k[2]), i)
     /\ \A f \in Files :
          flushFile(f) => \A i \in Frames : ~LostBy(FlushFileOp(Cur, f), i)]_vars

\* A request that goes through allocBuf: what it does to state st.
Request(st, k, isNew) ==
  IF isNew THEN AllocPageOp(st, k[1], k[2]) ELSE ReadPageOp(st, k[1], k[2])

\* The step is the request: a newPage, or a fetch of a page that is in the
\* file and not resident.
IsRequest(k, isNew) ==
  IF isNew
  THEN allocPage(k[1], k[2])
  ELSE ~Resident(k) /\ PageExists(disk, k[1], k[2]) /\ readPage(k[1], k[2])

\* The request as retried after it failed and the one pin on page u was
\* released.
Retried(k, isNew, u, dirty) ==
  Request(UnPinPageOp(Request(Cur, k, isNew).st, u[1], u[2], dirty).st, k, isNew)

\* C6: with every frame valid and pinned, a fetch of a page that is not
\* resident and a newPage fail with BufferExceededException, and succeed when
\* retried after any one frame was unpinned.
C6_AllPinnedIsExhausted ==
  [][AllPinned => \A k \in Keys, isNew \in BOOLEAN : IsRequest(k, isNew) =>
       /\ Request(Cur, k, isNew).res = "BufferExceeded"
       /\ \A u \in Keys, dirty \in BOOLEAN :
            (Resident(u) /\ bufDescTable[Lookup(hashTable, u[1], u[2])].pinCnt = 1)
              => Retried(k, isNew, u, dirty).res = "ok"]_vars

\* C7: every call of allocBuf ends: no call is left scanning forever.
C7_AllocBufEnds == ~hung

\* C8: after newPage returned pageNo, the frame holds the page the file
\* allocated (it carries pageNo), and a fetch of that page is a hit that
\* makes no File call and hands out the same content.
C8_NewPageRoundTrip ==
  [][\A k \in Keys :
       LET r == AllocPageOp(Cur, k[1], k[2])
           h == ReadPageOp(r.st, k[1], k[2])
       IN (allocPage(k[1], k[2]) /\ r.res = "ok") =>
            /\ r.st.pool[r.frame] = [pno |-> k[2]]
            /\ h.res = "ok" /\ h.io = <<>> /\ h.frame = r.frame
            /\ h.st.pool[h.frame] = r.st.pool[r.frame]]_vars

\* C9: a fetch of a resident page makes no File call, sets the frame's
\* refbit, adds one to its pinCnt, and changes nothing else.
C9_HitEffect ==
  [][\A k \in Keys :
       LET i == Lookup(hashTable, k[1], k[2])
           r == ReadPageOp(Cur, k[1], k[2])
       IN (i # NoFrame /\ readPage(k[1], k[2])) =>
            /\ r.res = "ok" /\ r.io = <<>> /\ r.frame = i
            /\ bufDescTable' = [bufDescTable EXCEPT ![i].refbit = TRUE,
                                                    ![i].pinCnt = @ + 1]
            /\ bufPool' = bufPool
            /\ hashTable' = hashTable
            /\ clockHand' = clockHand
            /\ disk' = disk]_vars

\* C9 witness: a page pinned twice, so fetched while resident, that is
\* dirty and beside another valid frame.
C9_HitHappened ==
  \E i \in Frames :
    /\ bufDescTable[i].pinCnt = 2
    /\ bufDescTable[i].dirty
    /\ \E j \in Frames \ {i} : bufDescTable[j].valid

\* C10: after a successful fetch the page is in the hash table; a hit added
\* one pin; a miss issued exactly one readPage(pageNo), the frame holds the
\* page read, pinCnt = 1, not dirty; no other frame's pinCnt changed.
C10_SuccessfulFetch ==
  [][\A k \in Keys :
       LET r == ReadPageOp(Cur, k[1], k[2])
           i == r.frame
       IN (readPage(k[1], k[2]) /\ r.res = "ok") =>
          /\ i \in Frames
          /\ Lookup(hashTable', k[1], k[2]) = i
          /\ bufDescTable'[i].valid
          /\ bufDescTable'[i].file = k[1]
          /\ bufDescTable'[i].pageNo = k[2]
          /\ Resident(k) => bufDescTable'[i].pinCnt = bufDescTable[i].pinCnt + 1
          /\ ~Resident(k) =>
               /\ Cardinality(IoCalls(r.io, "readPage")) = 1
               /\ r.io[Len(r.io)] = IoRead(k[1], k[2])
               /\ bufPool'[i] = FileRead(disk, k[1], k[2])
               /\ bufDescTable'[i].pinCnt = 1
               /\ ~bufDescTable'[i].dirty
          /\ \A j \in Frames \ {i} :
               bufDescTable'[j].pinCnt = bufDescTable[j].pinCnt]_vars

\* C10 witness: a state from which a fetch is a miss that writes back a
\* dirty victim and reads the page, beside a pinned frame.
C10_MissLoads ==
  \E k \in Keys :
    LET r == ReadPageOp(Cur, k[1], k[2]) IN
    /\ Running /\ ~Resident(k)
    /\ r.res = "ok" /\ Len(r.io) = 2
    /\ \E j \in Frames \ {r.frame} : bufDescTable[j].pinCnt > 0

\* C11: pinCnt is never negative, and in every state an unPinPage of a
\* resident page whose pinCnt is 0 throws PageNotPinnedException and changes
\* nothing, for either value of dirty.
C11_OverUnpinReported ==
  /\ \A i \in Frames : bufDescTable[i].pinCnt >= 0
  /\ Running => \A k \in Keys, dirty \in BOOLEAN :
       LET i == Lookup(hashTable, k[1], k[2])
           r == UnPinPageOp(Cur, k[1], k[2], dirty)
       IN (i # NoFrame /\ bufDescTable[i].pinCnt = 0) =>
            /\ r.res = "PageNotPinned"
            /\ r.st = Cur
            /\ r.io = <<>>

\* C11 witness: a resident page that is dirty, has its refbit set and no pin
\* left, beside another valid frame: an unPinPage of it is the excess call.
C11_ExcessUnpin ==
  \E k \in Keys :
    LET i == Lookup(hashTable, k[1], k[2]) IN
    /\ Running /\ i # NoFrame
    /\ bufDescTable[i].pinCnt = 0 /\ bufDescTable[i].dirty /\ bufDescTable[i].refbit
    /\ UnPinPageOp(Cur, k[1], k[2], TRUE).res = "PageNotPinned"
    /\ \E j \in Frames \ {i} : bufDescTable[j].valid

AllValid == \A i \in Frames : bufDescTable[i].valid
SomeUnpinned == \E i \in Frames : bufDescTable[i].pinCnt = 0

\* The frame the clock policy selects when every frame is valid: the first
\* frame after hand h, in circular order, that is unpinned and whose refbit
\* is clear when the hand inspects it; cleared are the frames whose refbit
\* the hand has cleared on the way.
RECURSIVE ClockVictim(_, _)
ClockVictim(h, cleared) ==
  LET n == AdvanceClock(h) IN
  IF bufDescTable[n].refbit /\ n \notin cleared
  THEN ClockVictim(n, cleared \cup {n})
  ELSE IF bufDescTable[n].pinCnt > 0
  THEN ClockVictim(n, cleared)
  ELSE n

\* The call that ended as r evicted frame v and nothing else: it returned
\* v, wrote v's content once and first iff v was dirty, removed v's entry,
\* and every other frame is still resident with its page.
EvictedOnly(r, v) ==
  /\ r.res = "ok" /\ r.frame = v
  /\ Cardinality(IoCalls(r.io, "writePage")) = (IF bufDescTable[v].dirty THEN 1 ELSE 0)
  /\ bufDescTable[v].dirty => r.io[1] = IoWrite(bufDescTable[v].file, bufPool[v])
  /\ Lookup(r.st.hash, bufDescTable[v].file, bufDescTable[v].pageNo) # v
  /\ \A j \in Frames \ {v} :
       /\ r.st.desc[j].valid
       /\ r.st.desc[j].file = bufDescTable[j].file
       /\ r.st.desc[j].pageNo = bufDescTable[j].pageNo
       /\ Lookup(r.st.hash, bufDescTable[j].file, bufDescTable[j].pageNo)
            = Lookup(hashTable, bufDescTable[j].file, bufDescTable[j].pageNo)
  /\ \A j \in Frames : r.st.desc[j].valid

\* The request can be made in this state: a fetch of a page of the file that
\* is not resident, or a newPage (the file assigns a number it does not hold).
CanRequest(k, isNew) ==
  IF isNew
  THEN AllocBuf(Cur).res = "ok" => ~PageExists(disk, k[1], k[2])
  ELSE ~Resident(k) /\ PageExists(disk, k[1], k[2])

\* C12: with every frame valid and at least one unpinned, a fetch of a page
\* that is not resident and a newPage succeed by evicting exactly the frame
\* the clock policy selects, writing it first iff it was dirty; the other
\* frames stay resident and all N frames stay valid.
C12_EvictsClockVictim ==
  (Running /\ AllValid /\ SomeUnpinned) =>
    \A k \in Keys, isNew \in BOOLEAN : CanRequest(k, isNew) =>
      EvictedOnly(Request(Cur, k, isNew), ClockVictim(clockHand, {}))

\* C13: in every state, no public call ends with HashNotFoundException.
C13_LookupMissNeverEscapes ==
  Running =>
    /\ \A k \in Keys :
         /\ ReadPageOp(Cur, k[1], k[2]).res # "HashNotFound"
         /\ CanRequest(k, TRUE) => AllocPageOp(Cur, k[1], k[2]).res # "HashNotFound"
         /\ DisposePageOp(Cur, k[1], k[2]).res # "HashNotFound"
         /\ \A dirty \in BOOLEAN :
              UnPinPageOp(Cur, k[1], k[2], dirty).res # "HashNotFound"
    /\ \A f \in Files : FlushFileOp(Cur, f).res # "HashNotFound"

\* The frames of file f that are pinned.
PinnedOf(f) == {i \in Frames : bufDescTable[i].file = f /\ bufDescTable[i].pinCnt # 0}
MinFrame(S) == CHOOSE i \in S : \A j \in S : i <= j

\* flushFile(f) that ended as r processed frame i: wrote its content, removed
\* its entry and cleared its descriptor.
Processed(r, f, i) ==
  /\ r.st.desc[i] = Clear(bufDescTable[i])
  /\ Lookup(r.st.hash, f, bufDescTable[i].pageNo) = NoFrame
  /\ \E n \in 1 .. Len(r.io) : r.io[n] = IoWrite(f, bufPool[i])

\* The call that ended as r left frame i as it was, with its entry.
Untouched(r, i) ==
  /\ r.st.desc[i] = bufDescTable[i]
  /\ r.st.pool[i] = bufPool[i]
  /\ \A k \in Keys : hashTable[k] = i => r.st.hash[k] = i

\* The frames of file f that a flushFile has to write.
DirtyOf(f) == {i \in Frames : bufDescTable[i].file = f /\ bufDescTable[i].dirty}

\* C14: flushFile(f) throws PagePinnedException iff its scan reaches a frame
\* of f with pinCnt # 0; then the dirty frames of f before that frame are
\* processed, and every other frame, the pinned one included, is untouched.
C14_FlushStopsAtPinned ==
  Running => \A f \in Files :
    LET r == FlushFileOp(Cur, f)
        m == MinFrame(PinnedOf(f))
    IN /\ r.res = "PagePinned" => PinnedOf(f) # {}
       /\ PinnedOf(f) # {} =>
            \/ r.res = "PagePinned" /\ r.frame = m
            \/ r.res \in {"FileError", "HashNotFound", "BadBuffer"} /\ r.frame < m
       /\ (PinnedOf(f) # {} /\ r.res = "PagePinned") =>
            /\ \A i \in Frames :
                 IF i < m /\ i \in DirtyOf(f)
                 THEN Processed(r, f, i)
                 ELSE Untouched(r, i)
            /\ Len(r.io) = Cardinality({i \in DirtyOf(f) : i < m})
            /\ r.st.hand = clockHand

\* C15: a flushFile(f) that returns has written each dirty frame of f once,
\* removed its entry and cleared its descriptor; no valid frame of f is left
\* dirty; the clean frames of f and the frames of other files keep their
\* descriptor, content and entry; the clock hand is where it was.
C15_FlushWritesDirtyFrames ==
  Running => \A f \in Files :
    LET r == FlushFileOp(Cur, f) IN
    r.res = "ok" =>
      /\ \A i \in Frames :
           IF i \in DirtyOf(f) THEN Processed(r, f, i) ELSE Untouched(r, i)
      /\ Len(r.io) = Cardinality(DirtyOf(f))
      /\ \A i \in Frames :
           (r.st.desc[i].valid /\ r.st.desc[i].file = f) => ~r.st.desc[i].dirty
      /\ r.st.hand = clockHand

C17_UnpinMissIsNoOp ==
  Running => \A k \in Keys, dirty \in BOOLEAN :
    LET r == UnPinPageOp(Cur, k[1], k[2], dirty) IN
    Lookup(hashTable, k[1], k[2]) = NoFrame =>
      /\ r.res = "ok"
      /\ r.st = Cur
      /\ r.io = <<>>

\* C17 witness: a page of the file that is not resident while a pinned page
\* is: an unPinPage of the former returns.
C17_UnpinOfAbsentPage ==
  \E k \in Keys :
    /\ Running /\ ~Resident(k) /\ PageExists(disk, k[1], k[2])
    /\ UnPinPageOp(Cur, k[1], k[2], TRUE).res = "ok"
    /\ \E i \in Frames : bufDescTable[i].valid /\ bufDescTable[i].pinCnt > 0

\* allocBuf that ended as a changed the descriptor of frame j at most by
\* clearing its refbit, or, for the unpinned frame it selected and wrote,
\* its dirty bit too.
OnlyRefbitCleared(a, j) ==
  \/ a.st.desc[j] = bufDescTable[j]
  \/ bufDescTable[j].refbit /\ a.st.desc[j] = [bufDescTable[j] EXCEPT !.refbit = FALSE]
  \/ /\ bufDescTable[j].pinCnt = 0
     /\ a.st.desc[j] = [bufDescTable[j] EXCEPT !.refbit = FALSE, !.dirty = FALSE]

WritesNamedPages(io) ==
  \A n \in IoCalls(io, "writePage") :
    \E i \in Frames :
      /\ bufDescTable[i].valid /\ bufDescTable[i].dirty
      /\ bufDescTable[i].file = io[n].file
      /\ bufDescTable[i].pageNo = io[n].pno

\* C19: in every state the page number carried by the content of a valid
\* frame is the descriptor's pageNo, so the writePage of an eviction or of a
\* flushFile goes to the page the descriptor names.
C19_ContentMatchesDescriptor ==
  /\ \A i \in ValidFrames : bufPool[i].pno = bufDescTable[i].pageNo
  /\ Running =>
       /\ AllocBuf(Cur).res # "hang" => WritesNamedPages(AllocBuf(Cur).io)
       /\ \A f \in Files : WritesNamedPages(FlushFileOp(Cur, f).io)

====
